---- MODULE Spec2Model ----
(***************************************************************************)
(* Model of Challenge_Python_Inmar.py: the data-quality pipeline made of   *)
(* the processed-file ledger, the file check module, the data quality      *)
(* check module, the output writer and main.                               *)
(*                                                                         *)
(* Text is a sequence of one-character strings; a missing cell (NaN/None)  *)
(* is the value Null.                                                      *)
(***************************************************************************)
EXTENDS Integers, Sequences, FiniteSets, TLC

\* ------------------------------------------------------------------ bounds
MaxRuns == 3
MaxChanges == 1
MaxRows == 2

\* ------------------------------------------------------------ text helpers
Null == <<"NaN">>
Digits == {"0", "1", "2", "3", "4", "5", "6", "7", "8", "9"}
Letters == {"a", "b", "i", "n", "v", "l", "d"}
INVALID == <<"i", "n", "v", "a", "l", "i", "d">>

isna(v) == v = Null

isdigit(s) == Len(s) > 0 /\ \A i \in 1..Len(s) : s[i] \in Digits

RECURSIVE lstrip(_, _)
lstrip(s, cs) == IF s # <<>> /\ Head(s) \in cs THEN lstrip(Tail(s), cs) ELSE s

RECURSIVE rstrip(_, _)
rstrip(s, cs) ==
    IF s # <<>> /\ s[Len(s)] \in cs THEN rstrip(SubSeq(s, 1, Len(s) - 1), cs) ELSE s

\* pandas' integer parser skips surrounding blanks and accepts one leading sign
IntBody(s) ==
    LET t == rstrip(lstrip(s, {" "}), {" "})
    IN IF t # <<>> /\ Head(t) = "+" THEN Tail(t) ELSE t

IsIntLiteral(s) == isdigit(IntBody(s))

\* str() of the parsed int64: no sign, no leading zeros
IntStr(s) ==
    LET z == lstrip(IntBody(s), {"0"})
    IN IF z = <<>> THEN <<"0">> ELSE z

\* ------------------------------------------------------------- pd.read_csv
RequiredColumns == {"name", "phone", "location", "address", "reviews_list"}

\* dtype pandas infers for one column of raw cells (empty cell = missing)
ColumnDtype(rows, col) ==
    LET present == {i \in 1..Len(rows) : rows[i][col] # <<>>}
    IN IF present = {} THEN "float64"
       ELSE IF \A i \in present : IsIntLiteral(rows[i][col])
            THEN (IF Cardinality(present) = Len(rows) THEN "int64" ELSE "float64")
            ELSE "object"

\* the value a cell holds after parsing, as str() prints it
ParseCell(raw, dtype) ==
    IF raw = <<>> THEN Null
    ELSE IF dtype = "int64" THEN IntStr(raw)
    ELSE IF dtype = "float64" THEN IntStr(raw) \o <<".", "0">>
    ELSE raw

read_csv(content) ==
    [cols |-> content.cols,
     rows |-> [i \in 1..Len(content.rows) |->
                 [c \in RequiredColumns |->
                    ParseCell(content.rows[i][c], ColumnDtype(content.rows, c))]]]

\* ------------------------------------------------- data_quality_check_module
\* mutant: only blanks are removed, a leading "+" stays
clean_and_validate_phone_keepplus(phone) ==
    IF isna(phone) THEN Null
    ELSE LET p == SelectSeq(phone, LAMBDA c : c # " ")
         IN IF Len(p) = 10 /\ isdigit(p) THEN p ELSE INVALID

clean_and_validate_phone(phone) ==
    IF isna(phone) THEN Null
    ELSE LET p == SelectSeq(phone, LAMBDA c : c # "+" /\ c # " ")
         IN IF Len(p) = 10 /\ isdigit(p) THEN p ELSE INVALID

\* \w (letters, digits, underscore), \s (blank, tab, ...) and the comma are
\* kept by re.sub(r'[^\w\s,]', '', text)
WordChars == Digits \cup Letters \cup {"_"}
Whitespace == {" ", "\t"}
KeptChars == WordChars \cup Whitespace \cup {","}

clean_descriptive_field(text) ==
    IF isna(text) THEN Null
    ELSE SelectSeq(text, LAMBDA c : c \in KeptChars)

\* the first required column the function indexes that the table lacks
MissingColumn(df) ==
    IF "phone" \notin df.cols THEN "phone"
    ELSE IF "name" \notin df.cols THEN "name"
    ELSE IF "location" \notin df.cols THEN "location"
    ELSE IF "address" \notin df.cols THEN "address"
    ELSE IF "reviews_list" \notin df.cols THEN "reviews_list"
    ELSE "none"

\* mutant: a missing location flags the row but adds no tag
AnnotateRow_notag(r) ==
    LET phone_cleaned == clean_and_validate_phone(r["phone"])
        t1 == IF phone_cleaned = INVALID THEN <<"invalid_phone;">> ELSE <<>>
        t2 == IF isna(r["name"]) THEN <<"null_name;">> ELSE <<>>
        t3 == IF isna(phone_cleaned) THEN <<"null_phone;">> ELSE <<>>
    IN [name |-> r["name"],
        phone |-> phone_cleaned,
        location |-> r["location"],
        address |-> clean_descriptive_field(r["address"]),
        reviews_list |-> clean_descriptive_field(r["reviews_list"]),
        is_bad |-> (phone_cleaned = INVALID \/ isna(r["name"])
                    \/ isna(phone_cleaned) \/ isna(r["location"])),
        issue_type |-> t1 \o t2 \o t3]

\* mutant: the required fields are checked in the order phone, name, location
AnnotateRow_phonefirst(r) ==
    LET phone_cleaned == clean_and_validate_phone(r["phone"])
        t1 == IF phone_cleaned = INVALID THEN <<"invalid_phone;">> ELSE <<>>
        t2 == IF isna(r["name"]) THEN <<"null_name;">> ELSE <<>>
        t3 == IF isna(phone_cleaned) THEN <<"null_phone;">> ELSE <<>>
        t4 == IF isna(r["location"]) THEN <<"null_location;">> ELSE <<>>
    IN [name |-> r["name"],
        phone |-> phone_cleaned,
        location |-> r["location"],
        address |-> clean_descriptive_field(r["address"]),
        reviews_list |-> clean_descriptive_field(r["reviews_list"]),
        is_bad |-> (phone_cleaned = INVALID \/ isna(r["name"])
                    \/ isna(phone_cleaned) \/ isna(r["location"])),
        issue_type |-> t1 \o t3 \o t2 \o t4]

AnnotateRow(r) ==
    LET phone_cleaned == clean_and_validate_phone(r["phone"])
        t1 == IF phone_cleaned = INVALID THEN <<"invalid_phone;">> ELSE <<>>
        t2 == IF isna(r["name"]) THEN <<"null_name;">> ELSE <<>>
        t3 == IF isna(phone_cleaned) THEN <<"null_phone;">> ELSE <<>>
        t4 == IF isna(r["location"]) THEN <<"null_location;">> ELSE <<>>
    IN [name |-> r["name"],
        phone |-> phone_cleaned,
        location |-> r["location"],
        address |-> clean_descriptive_field(r["address"]),
        reviews_list |-> clean_descriptive_field(r["reviews_list"]),
        is_bad |-> (phone_cleaned = INVALID \/ isna(r["name"])
                    \/ isna(phone_cleaned) \/ isna(r["location"])),
        issue_type |-> t1 \o t2 \o t3 \o t4]

data_quality_check_module(df) ==
    [cols |-> df.cols \cup {"is_bad", "issue_type"},
     rows |-> [i \in 1..Len(df.rows) |-> AnnotateRow(df.rows[i])]]

\* --------------------------------------------------------- write_output_files
DropFlags(r) ==
    [c \in RequiredColumns |-> r[c]]

\* mutant: the is_bad filter is missing from the clean selection
clean_records_all(df) ==
    [i \in 1..Len(df.rows) |-> DropFlags(df.rows[i])]

clean_records(df) ==
    LET kept == SelectSeq(df.rows, LAMBDA r : ~r.is_bad)
    IN [i \in 1..Len(kept) |-> DropFlags(kept[i])]

bad_records(df) == SelectSeq(df.rows, LAMBDA r : r.is_bad)

\* ------------------------------------------------------- the input directory
Files == {"data_file_1.csv", "data_file_2.csv"}

GoodRow == [name |-> <<"a">>, phone |-> <<"5", "5", "5", " ", "1", "2", "3", " ", "4", "5", "6", "7">>,
            location |-> <<"b">>, address |-> <<"a", ",", " ", "b", "!">>,
            reviews_list |-> <<"n", "#", "1">>]
NoNameRow == [GoodRow EXCEPT !["name"] = <<>>]
ShortPhoneRow == [GoodRow EXCEPT !["phone"] = <<"1", "2", "3", "4", "5">>]

Malformed == [parses |-> FALSE, cols |-> {}, rows |-> <<>>]
TClean == [parses |-> TRUE, cols |-> RequiredColumns, rows |-> <<GoodRow>>]
TMixed == [parses |-> TRUE, cols |-> RequiredColumns, rows |-> <<GoodRow, NoNameRow>>]
TBad == [parses |-> TRUE, cols |-> RequiredColumns, rows |-> <<ShortPhoneRow>>]
TNoPhoneCol == [parses |-> TRUE, cols |-> RequiredColumns \ {"phone"}, rows |-> <<GoodRow>>]

\* what the directory can hold under one of the names: nothing, a zero-byte
\* file, a file whose name matches the pattern but does not end in ".csv"
\* (a case-insensitive match), or a ".csv" file with some content
Absent == [exists |-> FALSE, size |-> 0, csv |-> TRUE, content |-> Malformed]
FileStates ==
    {Absent}
    \cup {[exists |-> TRUE, size |-> 0, csv |-> e, content |-> Malformed] : e \in BOOLEAN}
    \cup {[exists |-> TRUE, size |-> 1, csv |-> FALSE, content |-> TClean]}
    \cup {[exists |-> TRUE, size |-> 1, csv |-> TRUE, content |-> c] :
             c \in {Malformed, TClean, TMixed, TBad, TNoPhoneCol}}

\* ------------------------------------------------------------------- state
VARIABLES inputDir, ledger, ledgerTorn, outputs, pc, csv_files, file_path, df,
          runNo, changes, status, admission, writers, notice, abortCause,
          prevCompleted, sameDir, dirChanged, newArtifacts, newRecords, failedRuns,
          inst

vars == <<inputDir, ledger, ledgerTorn, outputs, pc, csv_files, file_path, df,
          runNo, changes, status, admission, writers, notice, abortCause,
          prevCompleted, sameDir, dirChanged, newArtifacts, newRecords, failedRuns,
          inst>>

\* the instances of the pipeline that share the ledger and the directories
Instances == {1, 2}
NoInst == [p \in Instances |-> [pc |-> "off", job |-> "none", local |-> <<>>]]

NoDf == [cols |-> {}, rows |-> <<>>]

\* ------------------------------------------------------------------ ledger
\* mutant: the ledger file is never found
load_processed_files_lost(led) == {}

load_processed_files(led) == {led[i].file_name : i \in 1..Len(led)}

save_processed_files(led, file_name, now) ==
    Append(led, [file_name |-> file_name, processed_date |-> now])

\* --------------------------------------------------------- file_check_module
\* mutant: the already-processed check is missing
file_check_module_noledger(file_name, size, ends_csv, led) ==
    IF size = 0 THEN "Empty"
    ELSE IF ~ends_csv THEN "InvalidExtension"
    ELSE "Admit"

\* mutant: the extension is checked before the size
file_check_module_extfirst(file_name, size, ends_csv, led) ==
    IF file_name \in load_processed_files(led) THEN "AlreadyProcessed"
    ELSE IF ~ends_csv THEN "InvalidExtension"
    ELSE IF size = 0 THEN "Empty"
    ELSE "Admit"

\* mutant: the size check is missing
file_check_module_noempty(file_name, size, ends_csv, led) ==
    IF file_name \in load_processed_files(led) THEN "AlreadyProcessed"
    ELSE IF ~ends_csv THEN "InvalidExtension"
    ELSE "Admit"

file_check_module(file_name, size, ends_csv, led) ==
    IF file_name \in load_processed_files(led) THEN "AlreadyProcessed"
    ELSE IF size = 0 THEN "Empty"
    ELSE IF ~ends_csv THEN "InvalidExtension"
    ELSE "Admit"

\* os.path.splitext(file_name)[0]
file_base_name(f) ==
    IF f = "data_file_1.csv" THEN "data_file_1" ELSE "data_file_2"

Check(f) == file_check_module(f, inputDir[f].size, inputDir[f].csv, ledger)

\* ------------------------------------------------------------------- glob
RECURSIVE Orderings(_)
Orderings(S) ==
    IF S = {} THEN {<<>>}
    ELSE UNION {{<<x>> \o o : o \in Orderings(S \ {x})} : x \in S}

glob == Orderings({f \in Files : inputDir[f].exists})

Init ==
    /\ inputDir \in [Files -> FileStates]
    /\ ledger = <<>>
    /\ ledgerTorn = FALSE
    /\ outputs = {}
    /\ pc = "idle"
    /\ csv_files = <<>>
    /\ file_path = "none"
    /\ df = NoDf
    /\ runNo = 0
    /\ changes = 0
    /\ status = [f \in Files |-> "NotSeen"]
    /\ admission = [f \in Files |-> "none"]
    /\ writers = [f \in Files |-> {}]
    /\ notice = FALSE
    /\ abortCause = "none"
    /\ prevCompleted = FALSE
    /\ sameDir = FALSE
    /\ dirChanged = FALSE
    /\ newArtifacts = 0
    /\ newRecords = 0
    /\ failedRuns = {}
    /\ inst = NoInst

Between == pc \in {"idle", "done", "aborted"}

\* the environment puts, replaces or removes one file between two runs
ChangeInput ==
    /\ pc \in {"done", "aborted"}
    /\ changes < MaxChanges
    /\ \E f \in Files, fs \in FileStates :
         /\ fs # inputDir[f]
         /\ inputDir' = [inputDir EXCEPT ![f] = fs]
    /\ changes' = changes + 1
    /\ dirChanged' = TRUE
    /\ UNCHANGED <<ledger, ledgerTorn, outputs, pc, csv_files, file_path, df, runNo,
                   status, admission, writers, notice, abortCause, prevCompleted,
                   sameDir, newArtifacts, newRecords, failedRuns, inst>>

\* main, line 136: the candidates are listed once, in an order glob chooses
StartRun ==
    /\ Between
    /\ runNo < MaxRuns
    /\ runNo' = runNo + 1
    /\ csv_files' \in glob
    /\ status' = [f \in Files |-> IF inputDir[f].exists THEN "Discovered" ELSE "NotSeen"]
    /\ admission' = [f \in Files |-> "none"]
    /\ notice' = FALSE
    /\ abortCause' = "none"
    /\ prevCompleted' = (pc = "done")
    /\ sameDir' = ~dirChanged
    /\ dirChanged' = FALSE
    /\ newArtifacts' = 0
    /\ newRecords' = 0
    /\ file_path' = "none"
    /\ df' = NoDf
    /\ pc' = "loop"
    /\ UNCHANGED <<inputDir, ledger, ledgerTorn, outputs, changes, writers, failedRuns, inst>>

Abort(cause) ==
    /\ pc' = "aborted"
    /\ abortCause' = cause
    /\ failedRuns' = IF cause \in {"OutputWriteError", "LedgerWriteError"}
                     THEN failedRuns \cup {runNo} ELSE failedRuns

\* mutant: a skipped file is saved to the log as well
SkipFile_record ==
    /\ pc = "loop" /\ csv_files # <<>>
    /\ ~ledgerTorn
    /\ LET f == Head(csv_files) IN
         /\ Check(f) # "Admit"
         /\ file_path' = f
         /\ admission' = [admission EXCEPT ![f] = Check(f)]
         /\ status' = [status EXCEPT ![f] = "Skipped"]
         /\ ledger' = IF Check(f) = "AlreadyProcessed" THEN ledger
                      ELSE save_processed_files(ledger, f, runNo)
    /\ csv_files' = Tail(csv_files)
    /\ UNCHANGED <<inputDir, ledgerTorn, outputs, pc, df, runNo, changes,
                   writers, notice, abortCause, prevCompleted, sameDir, dirChanged,
                   newArtifacts, newRecords, failedRuns, inst>>

\* main, lines 138-139, file_check_module returning False
SkipFile ==
    /\ pc = "loop" /\ csv_files # <<>>
    /\ ~ledgerTorn
    /\ LET f == Head(csv_files) IN
         /\ Check(f) # "Admit"
         /\ file_path' = f
         /\ admission' = [admission EXCEPT ![f] = Check(f)]
         /\ status' = [status EXCEPT ![f] = "Skipped"]
    /\ csv_files' = Tail(csv_files)
    /\ UNCHANGED <<inputDir, ledger, ledgerTorn, outputs, pc, df, runNo, changes,
                   writers, notice, abortCause, prevCompleted, sameDir, dirChanged,
                   newArtifacts, newRecords, failedRuns, inst>>

\* main, lines 139-142, file_check_module returning True
AdmitFile ==
    /\ pc = "loop" /\ csv_files # <<>>
    /\ ~ledgerTorn
    /\ LET f == Head(csv_files) IN
         /\ Check(f) = "Admit"
         /\ file_path' = f
         /\ admission' = [admission EXCEPT ![f] = "Admit"]
         /\ status' = [status EXCEPT ![f] = "Admitted"]
    /\ csv_files' = Tail(csv_files)
    /\ pc' = "admitted"
    /\ UNCHANGED <<inputDir, ledger, ledgerTorn, outputs, df, runNo, changes,
                   writers, notice, abortCause, prevCompleted, sameDir, dirChanged,
                   newArtifacts, newRecords, failedRuns, inst>>

\* load_processed_files, line 17: a ledger file left without a header by a
\* failed rewrite cannot be parsed, and nothing catches the exception
LedgerReadError ==
    /\ pc = "loop" /\ csv_files # <<>>
    /\ ledgerTorn
    /\ file_path' = Head(csv_files)
    /\ csv_files' = Tail(csv_files)
    /\ Abort("LedgerReadError")
    /\ UNCHANGED <<inputDir, ledger, ledgerTorn, outputs, df, runNo, changes, status,
                   admission, writers, notice, prevCompleted, sameDir, dirChanged,
                   newArtifacts, newRecords, inst>>

\* main, lines 145-146
ReadOk ==
    /\ pc = "admitted"
    /\ inputDir[file_path].content.parses
    /\ df' = read_csv(inputDir[file_path].content)
    /\ status' = [status EXCEPT ![file_path] = "Loaded"]
    /\ pc' = "loaded"
    /\ UNCHANGED <<inputDir, ledger, ledgerTorn, outputs, csv_files, file_path, runNo,
                   changes, admission, writers, notice, abortCause, prevCompleted,
                   sameDir, dirChanged, newArtifacts, newRecords, failedRuns, inst>>

\* mutant: no try/except around pd.read_csv
ReadFail_uncaught ==
    /\ pc = "admitted"
    /\ ~inputDir[file_path].content.parses
    /\ status' = [status EXCEPT ![file_path] = "ReadFailed"]
    /\ Abort("ReadError")
    /\ UNCHANGED <<inputDir, ledger, ledgerTorn, outputs, csv_files, file_path, df,
                   runNo, changes, admission, writers, notice, prevCompleted, sameDir,
                   dirChanged, newArtifacts, newRecords, inst>>

\* main, lines 147-149: the exception is caught and the loop continues
ReadFail ==
    /\ pc = "admitted"
    /\ ~inputDir[file_path].content.parses
    /\ status' = [status EXCEPT ![file_path] = "ReadFailed"]
    /\ pc' = "loop"
    /\ UNCHANGED <<inputDir, ledger, ledgerTorn, outputs, csv_files, file_path, df,
                   runNo, changes, admission, writers, notice, abortCause,
                   prevCompleted, sameDir, dirChanged, newArtifacts, newRecords, failedRuns, inst>>

\* main, line 151
AnnotateOk ==
    /\ pc = "loaded"
    /\ MissingColumn(df) = "none"
    /\ df' = data_quality_check_module(df)
    /\ status' = [status EXCEPT ![file_path] = "Annotated"]
    /\ pc' = "annotated"
    /\ UNCHANGED <<inputDir, ledger, ledgerTorn, outputs, csv_files, file_path, runNo,
                   changes, admission, writers, notice, abortCause, prevCompleted,
                   sameDir, dirChanged, newArtifacts, newRecords, failedRuns, inst>>

\* main, line 151: df['<column>'] raises KeyError, which main does not catch
SchemaError ==
    /\ pc = "loaded"
    /\ MissingColumn(df) # "none"
    /\ status' = [status EXCEPT ![file_path] = "SchemaError"]
    /\ Abort("SchemaError")
    /\ UNCHANGED <<inputDir, ledger, ledgerTorn, outputs, csv_files, file_path, df,
                   runNo, changes, admission, writers, notice, prevCompleted, sameDir,
                   dirChanged, newArtifacts, newRecords, inst>>

\* mutant: the clean artifact is written only when there are clean rows
WriteCleanOk_skipEmpty ==
    /\ pc = "annotated"
    /\ IF clean_records(df) # <<>>
       THEN /\ outputs' = outputs \cup {[kind |-> "clean", base |-> file_base_name(file_path),
                                         stamp |-> runNo, rows |-> clean_records(df)]}
            /\ writers' = [writers EXCEPT ![file_path] = @ \cup {runNo}]
            /\ newArtifacts' = newArtifacts + 1
       ELSE UNCHANGED <<outputs, writers, newArtifacts>>
    /\ pc' = IF bad_records(df) # <<>> THEN "clean_written" ELSE "written"
    /\ status' = [status EXCEPT ![file_path] =
                    IF bad_records(df) # <<>> THEN "Annotated" ELSE "Written"]
    /\ UNCHANGED <<inputDir, ledger, ledgerTorn, csv_files, file_path, df, runNo,
                   changes, admission, notice, abortCause, prevCompleted, sameDir,
                   dirChanged, newRecords, failedRuns, inst>>

\* mutant: the bad artifact is written whether or not there are bad rows
WriteCleanOk_alwaysBad ==
    /\ pc = "annotated"
    /\ outputs' = outputs \cup {[kind |-> "clean", base |-> file_base_name(file_path),
                                 stamp |-> runNo, rows |-> clean_records(df)]}
    /\ writers' = [writers EXCEPT ![file_path] = @ \cup {runNo}]
    /\ newArtifacts' = newArtifacts + 1
    /\ pc' = "clean_written"
    /\ status' = [status EXCEPT ![file_path] = "Annotated"]
    /\ UNCHANGED <<inputDir, ledger, ledgerTorn, csv_files, file_path, df, runNo,
                   changes, admission, notice, abortCause, prevCompleted, sameDir,
                   dirChanged, newRecords, failedRuns, inst>>

\* write_output_files, lines 111-122: the clean artifact, named by the base
\* name and the time of the write
WriteCleanOk ==
    /\ pc = "annotated"
    /\ outputs' = outputs \cup {[kind |-> "clean", base |-> file_base_name(file_path),
                                 stamp |-> runNo, rows |-> clean_records(df)]}
    /\ writers' = [writers EXCEPT ![file_path] = @ \cup {runNo}]
    /\ newArtifacts' = newArtifacts + 1
    /\ pc' = IF bad_records(df) # <<>> THEN "clean_written" ELSE "written"
    /\ status' = [status EXCEPT ![file_path] =
                    IF bad_records(df) # <<>> THEN "Annotated" ELSE "Written"]
    /\ UNCHANGED <<inputDir, ledger, ledgerTorn, csv_files, file_path, df, runNo,
                   changes, admission, notice, abortCause, prevCompleted, sameDir,
                   dirChanged, newRecords, failedRuns, inst>>

\* write_output_files, lines 111-121: makedirs or to_csv raises; nothing
\* catches it in write_output_files or in main
WriteCleanFail ==
    /\ pc = "annotated"
    /\ status' = [status EXCEPT ![file_path] = "WriteFailed"]
    /\ Abort("OutputWriteError")
    /\ UNCHANGED <<inputDir, ledger, ledgerTorn, outputs, csv_files, file_path, df,
                   runNo, changes, admission, writers, notice, prevCompleted, sameDir,
                   dirChanged, newArtifacts, newRecords, inst>>

\* write_output_files, lines 126-129: <base>.bad is created or overwritten
WriteBadOk ==
    /\ pc = "clean_written"
    /\ outputs' = {o \in outputs : ~(o.kind = "bad" /\ o.base = file_base_name(file_path))}
                  \cup {[kind |-> "bad", base |-> file_base_name(file_path),
                         stamp |-> runNo, rows |-> bad_records(df)]}
    /\ writers' = [writers EXCEPT ![file_path] = @ \cup {runNo}]
    /\ newArtifacts' = newArtifacts + 1
    /\ status' = [status EXCEPT ![file_path] = "Written"]
    /\ pc' = "written"
    /\ UNCHANGED <<inputDir, ledger, ledgerTorn, csv_files, file_path, df, runNo,
                   changes, admission, notice, abortCause, prevCompleted, sameDir,
                   dirChanged, newRecords, failedRuns, inst>>

\* write_output_files, line 128 raising after the clean artifact was written
WriteBadFail ==
    /\ pc = "clean_written"
    /\ status' = [status EXCEPT ![file_path] = "WriteFailed"]
    /\ Abort("OutputWriteError")
    /\ UNCHANGED <<inputDir, ledger, ledgerTorn, outputs, csv_files, file_path, df,
                   runNo, changes, admission, writers, notice, prevCompleted, sameDir,
                   dirChanged, newArtifacts, newRecords, inst>>

\* mutant: the processed file is not saved to the log
RecordOk_nosave ==
    /\ pc = "written"
    /\ status' = [status EXCEPT ![file_path] = "Recorded"]
    /\ pc' = "loop"
    /\ UNCHANGED <<inputDir, ledger, ledgerTorn, outputs, csv_files, file_path, df, runNo,
                   changes, admission, writers, notice, abortCause, prevCompleted,
                   sameDir, dirChanged, newArtifacts, newRecords, failedRuns, inst>>

\* main, line 157
RecordOk ==
    /\ pc = "written"
    /\ ledger' = save_processed_files(ledger, file_path, runNo)
    /\ newRecords' = newRecords + 1
    /\ status' = [status EXCEPT ![file_path] = "Recorded"]
    /\ pc' = "loop"
    /\ UNCHANGED <<inputDir, ledgerTorn, outputs, csv_files, file_path, df, runNo,
                   changes, admission, writers, notice, abortCause, prevCompleted,
                   sameDir, dirChanged, newArtifacts, failedRuns, inst>>

\* save_processed_files, line 34 raising. The ledger file is rewritten in
\* full: the rewrite fails before the file is opened (ledger unchanged), or
\* after it was truncated, with only the first k old records flushed, or with
\* nothing flushed at all (a file pandas can no longer parse).
RecordFail ==
    /\ pc = "written"
    /\ \/ /\ ledger' = ledger
          /\ ledgerTorn' = FALSE
       \/ /\ \E k \in 0..(Len(ledger) - 1) : ledger' = SubSeq(ledger, 1, k)
          /\ ledgerTorn' = FALSE
       \/ /\ ledger' = <<>>
          /\ ledgerTorn' = TRUE
    /\ status' = [status EXCEPT ![file_path] = "RecordFailed"]
    /\ Abort("LedgerWriteError")
    /\ UNCHANGED <<inputDir, outputs, csv_files, file_path, df, runNo, changes,
                   admission, writers, notice, prevCompleted, sameDir, dirChanged,
                   newArtifacts, newRecords, inst>>

\* main, line 159
Finish ==
    /\ pc = "loop" /\ csv_files = <<>>
    /\ notice' = TRUE
    /\ pc' = "done"
    /\ UNCHANGED <<inputDir, ledger, ledgerTorn, outputs, csv_files, file_path, df,
                   runNo, changes, status, admission, writers, abortCause,
                   prevCompleted, sameDir, dirChanged, newArtifacts, newRecords, failedRuns, inst>>

Next ==
    \/ ChangeInput
    \/ StartRun
    \/ SkipFile
    \/ AdmitFile
    \/ LedgerReadError
    \/ ReadOk
    \/ ReadFail
    \/ AnnotateOk
    \/ SchemaError
    \/ WriteCleanOk
    \/ WriteCleanFail
    \/ WriteBadOk
    \/ WriteBadFail
    \/ RecordOk
    \/ RecordFail
    \/ Finish

Spec == Init /\ [][Next]_vars

\* ------------------------------------------- file_check_module on its own
\* ledgers the pipeline can leave behind: no name twice
Ledgers ==
    {<<>>}
    \cup {<<[file_name |-> f, processed_date |-> 1]>> : f \in Files}
    \cup UNION {{<<[file_name |-> f, processed_date |-> 1],
                     [file_name |-> g, processed_date |-> 1]>> : g \in Files \ {f}} :
                  f \in Files}

InitGate ==
    /\ inputDir \in [Files -> FileStates]
    /\ ledger \in Ledgers
    /\ ledgerTorn = FALSE
    /\ outputs = {}
    /\ pc = "gate"
    /\ csv_files = <<>>
    /\ file_path = "none"
    /\ df = NoDf
    /\ runNo = 0
    /\ changes = 0
    /\ status = [f \in Files |-> "NotSeen"]
    /\ admission = [f \in Files |-> "none"]
    /\ writers = [f \in Files |-> {}]
    /\ notice = FALSE
    /\ abortCause = "none"
    /\ prevCompleted = FALSE
    /\ sameDir = FALSE
    /\ dirChanged = FALSE
    /\ newArtifacts = 0
    /\ newRecords = 0
    /\ failedRuns = {}
    /\ inst = NoInst

\* one call file_check_module(file_path) on an existing file
GateCall ==
    /\ pc = "gate"
    /\ \E f \in Files :
         /\ inputDir[f].exists
         /\ admission[f] = "none"
         /\ file_path' = f
         /\ admission' = [admission EXCEPT ![f] = Check(f)]
    /\ UNCHANGED <<inputDir, ledger, ledgerTorn, outputs, pc, csv_files, df, runNo,
                   changes, status, writers, notice, abortCause, prevCompleted, sameDir,
                   dirChanged, newArtifacts, newRecords, failedRuns, inst>>

NextGate == GateCall

SpecGate == InitGate /\ [][NextGate]_vars

\* ------------------------------------------------------------------ claims
Recorded(f) == \E i \in 1..Len(ledger) : ledger[i].file_name = f
RecordCount(led, f) == Cardinality({i \in 1..Len(led) : led[i].file_name = f})
HasArtifact(kind, f, run) ==
    \E o \in outputs : o.kind = kind /\ o.base = file_base_name(f) /\ o.stamp = run

\* C1: when the previous run of main completed and the input directory has
\* not changed since it started, the current run writes no output artifact
\* and appends no ledger record.
C1_Idempotent ==
    (runNo >= 2 /\ prevCompleted /\ sameDir) => (newArtifacts = 0 /\ newRecords = 0)

C1_Witness ==
    /\ runNo >= 2 /\ prevCompleted /\ sameDir /\ pc = "done"
    /\ \E f \in Files : status[f] = "Skipped" /\ admission[f] = "AlreadyProcessed"
    /\ \E f \in Files : status[f] = "ReadFailed"

\* C2: every file name in the ledger has the clean artifact of the run that
\* recorded it, and whenever a record is appended the clean artifact of the
\* current table, and its bad artifact when the table has a bad row, are
\* already written.
C2_RecordedHaveOutputs ==
    \A i \in 1..Len(ledger) : HasArtifact("clean", ledger[i].file_name, ledger[i].processed_date)

C2_AppendAfterWrite ==
    Len(ledger') > Len(ledger) =>
        LET f == ledger'[Len(ledger')].file_name IN
        /\ f = file_path
        /\ \E o \in outputs : /\ o.kind = "clean" /\ o.base = file_base_name(f)
                              /\ o.stamp = runNo /\ o.rows = clean_records(df)
        /\ bad_records(df) # <<>> =>
             \E o \in outputs : /\ o.kind = "bad" /\ o.base = file_base_name(f)
                                /\ o.stamp = runNo /\ o.rows = bad_records(df)

C2_WriteThenRecord == [](C2_RecordedHaveOutputs) /\ [][C2_AppendAfterWrite]_vars

C2_Witness ==
    /\ pc = "loop" /\ file_path \in Files
    /\ status[file_path] = "Recorded"
    /\ HasArtifact("bad", file_path, runNo)
    /\ HasArtifact("clean", file_path, runNo)

\* C3: no file_name occurs in two records of the ledger, and the step that
\* takes a file to Recorded appends exactly one record, the file's own.
C3_Unique ==
    \A i, j \in 1..Len(ledger) : ledger[i].file_name = ledger[j].file_name => i = j

C3_OneRecord ==
    \A f \in Files :
        (status[f] # "Recorded" /\ status'[f] = "Recorded") =>
            /\ Len(ledger') = Len(ledger) + 1
            /\ SubSeq(ledger', 1, Len(ledger)) = ledger
            /\ ledger'[Len(ledger')].file_name = f
            /\ RecordCount(ledger, f) = 0

C3_LedgerUnique == [](C3_Unique) /\ [][C3_OneRecord]_vars

C3_Witness ==
    /\ runNo >= 2 /\ Len(ledger) = 2
    /\ \E f \in Files : status[f] = "Skipped" /\ admission[f] = "AlreadyProcessed"
    /\ \E f \in Files : status[f] = "Recorded"

\* C4 as stated: the output artifacts of a file name are written by at most
\* one run, also when runs are stopped by write failures.
C4_WrittenByOneRun == \A f \in Files : Cardinality(writers[f]) <= 1

\* C4 amended: no step writes an artifact for a file name that is in the
\* ledger, and a file is written by two runs only when a run at or after the
\* first of them and before the last was stopped after writing artifacts and
\* before completing the ledger update (an output or ledger write failure).
C4_NoWriteIfRecorded ==
    \A f \in Files : writers'[f] # writers[f] => ~Recorded(f)

C4_RewriteOnlyAfterFailure ==
    \A f \in Files : \A r1, r2 \in writers[f] :
        r1 < r2 => \E r \in failedRuns : r1 <= r /\ r < r2

C4_AtMostOnceUnlessFailed ==
    [](C4_RewriteOnlyAfterFailure) /\ [][C4_NoWriteIfRecorded]_vars

C4_Witness ==
    \E f \in Files : Cardinality(writers[f]) = 2 /\ Recorded(f) /\ failedRuns # {}

\* C5: a file whose load failed has no artifact of this run and no ledger
\* record, is still admitted while the directory is unchanged, and the step
\* that fails leaves main at the head of the loop with the remaining
\* candidates untouched.
C5_NoTrace ==
    \A f \in Files : status[f] = "ReadFailed" =>
        /\ runNo \notin writers[f]
        /\ ~Recorded(f)
        /\ abortCause # "ReadError"
        /\ (~dirChanged =>
              inputDir[f].size # 0 /\ inputDir[f].csv /\ inputDir[f].exists)

C5_Continue ==
    \A f \in Files :
        (status[f] # "ReadFailed" /\ status'[f] = "ReadFailed") =>
            /\ pc' = "loop"
            /\ csv_files' = csv_files
            /\ ledger' = ledger /\ outputs' = outputs

C5_ReadFailureRecoverable == [](C5_NoTrace) /\ [][C5_Continue]_vars

C5_Witness ==
    /\ pc = "done" /\ Len(ledger) = 1
    /\ \E f \in Files : status[f] = "ReadFailed" /\ f # file_path
    /\ \E f \in Files : status[f] = "Recorded" /\ ledger[1].file_name = f
                        /\ ledger[1].processed_date = runNo /\ f = file_path

\* C6 as stated: a file that lacks a required column is not recorded and
\* main goes on with the remaining candidates (the run is not stopped by it).
C6_SchemaErrorPerFile ==
    \A f \in Files : status[f] = "SchemaError" =>
        (~Recorded(f) /\ ~(pc = "aborted" /\ abortCause = "SchemaError"))

\* C7 as stated: a file whose clean or bad artifact could not be written is
\* not recorded and main goes on with the next candidate.
C7_WriteFailurePerFile ==
    \A f \in Files : status[f] = "WriteFailed" =>
        (~Recorded(f) /\ ~(pc = "aborted" /\ abortCause = "OutputWriteError"))

\* C8 as stated: a run that ends after skips, read failures, schema errors
\* or output write failures has emitted the completion notice.
C8_CompletionNotice ==
    (pc = "aborted" /\ abortCause \notin {"LedgerWriteError", "LedgerReadError"}) => notice

\* C9: file_check_module admits iff the name is not in the ledger, the size
\* is non-zero and the path ends in ".csv"; otherwise it reports the first
\* reason that applies in the order AlreadyProcessed, Empty, InvalidExtension.
C9_Admission ==
    \A f \in Files : admission[f] # "none" =>
        LET inLedger == Recorded(f)
            empty == inputDir[f].size = 0
            badExt == ~inputDir[f].csv
        IN /\ admission[f] = "Admit" <=> (~inLedger /\ ~empty /\ ~badExt)
           /\ inLedger => admission[f] = "AlreadyProcessed"
           /\ (~inLedger /\ empty) => admission[f] = "Empty"
           /\ (~inLedger /\ ~empty /\ badExt) => admission[f] = "InvalidExtension"

C9_Witness ==
    \E f, g \in Files :
        /\ admission[f] = "AlreadyProcessed" /\ inputDir[f].size = 0 /\ ~inputDir[f].csv
        /\ admission[g] = "Empty" /\ ~inputDir[g].csv

\* C10 as stated: every zero-byte file is skipped as Empty.
C10_EmptyAlways ==
    \A f \in Files : (admission[f] # "none" /\ inputDir[f].size = 0) => admission[f] = "Empty"

\* C10 amended: every zero-byte file whose base name is not in the ledger is
\* skipped as Empty, whatever its extension.
C10_EmptyUnlessRecorded ==
    \A f \in Files :
        (admission[f] # "none" /\ inputDir[f].size = 0 /\ ~Recorded(f)) => admission[f] = "Empty"

C10_Witness ==
    \E f, g \in Files :
        /\ admission[f] = "Empty" /\ inputDir[f].csv
        /\ admission[g] = "Empty" /\ ~inputDir[g].csv

\* --------------------------------- one file through load, check and write
NoLocationRow == [GoodRow EXCEPT !["location"] = <<>>]
AllNullRow == [GoodRow EXCEPT !["name"] = <<>>, !["phone"] = <<>>, !["location"] = <<>>]
AllBadRow == [ShortPhoneRow EXCEPT !["name"] = <<>>, !["location"] = <<>>]

Phones ==
    {<<>>,
     <<"5", "5", "5", " ", "1", "2", "3", " ", "4", "5", "6", "7">>,
     <<"5", "5", "5", "1", "2", "3", "4", "5", "6", "7">>,
     <<"+", "5", "5", "5", "1", "2", "3", "4", "5", "6", "7">>,
     <<"0", "1", "2", "3", "4", "5", "6", "7", "8", "9">>,
     <<"1", "2", "3", "4", "5">>,
     <<"5", "5", "5", "1", "2", "3", "4", "5", "6", "7", "8">>,
     <<"5", "5", "5", "a", "2", "3", "4", "5", "6", "7">>,
     <<"i", "n", "v", "a", "l", "i", "d">>}

Descriptions ==
    {<<>>,
     <<"a", "_", "b">>,
     <<"a", "\t", ",", "b", "#", "!">>,
     <<"1", "2">>,
     <<"0", "1", "2">>}

EngineRows ==
    {[GoodRow EXCEPT !["phone"] = p] : p \in Phones}
    \cup {NoNameRow, NoLocationRow, AllNullRow, AllBadRow}
    \cup {[GoodRow EXCEPT !["address"] = a, !["reviews_list"] = a] : a \in Descriptions}

RECURSIVE SeqsUpTo(_, _)
SeqsUpTo(S, n) ==
    IF n = 0 THEN {<<>>}
    ELSE LET shorter == SeqsUpTo(S, n - 1)
         IN shorter \cup {Append(q, x) : q \in {t \in shorter : Len(t) = n - 1}, x \in S}

EngineTables ==
    {[parses |-> TRUE, cols |-> RequiredColumns, rows |-> rs] : rs \in SeqsUpTo(EngineRows, MaxRows)}

EngineFile == "data_file_1.csv"

\* main has just admitted one file that holds any of the tables
InitEngine ==
    /\ \E t \in EngineTables :
         inputDir = [f \in Files |->
                       IF f = EngineFile
                       THEN [exists |-> TRUE, size |-> 1, csv |-> TRUE, content |-> t]
                       ELSE Absent]
    /\ ledger = <<>>
    /\ ledgerTorn = FALSE
    /\ outputs = {}
    /\ pc = "admitted"
    /\ csv_files = <<>>
    /\ file_path = EngineFile
    /\ df = NoDf
    /\ runNo = 1
    /\ changes = 0
    /\ status = [f \in Files |-> IF f = EngineFile THEN "Admitted" ELSE "NotSeen"]
    /\ admission = [f \in Files |-> IF f = EngineFile THEN "Admit" ELSE "none"]
    /\ writers = [f \in Files |-> {}]
    /\ notice = FALSE
    /\ abortCause = "none"
    /\ prevCompleted = FALSE
    /\ sameDir = FALSE
    /\ dirChanged = FALSE
    /\ newArtifacts = 0
    /\ newRecords = 0
    /\ failedRuns = {}
    /\ inst = NoInst

NextEngine ==
    \/ ReadOk
    \/ AnnotateOk
    \/ WriteCleanOk
    \/ WriteBadOk

SpecEngine == InitEngine /\ [][NextEngine]_vars

\* the table of the current file as pd.read_csv returns it
Loaded == read_csv(inputDir[EngineFile].content)
Annotated == pc \in {"annotated", "clean_written", "written"}

Normalized(v) == SelectSeq(v, LAMBDA c : c \notin {"+", " "})
TenDigits(v) == Len(v) = 10 /\ \A k \in 1..Len(v) : v[k] \in Digits
HasTag(r, tag) == \E k \in 1..Len(r.issue_type) : r.issue_type[k] = tag

\* C11: in every row of the table data_quality_check_module returns, is_bad
\* is true if and only if issue_type is not the empty string.
C11_BadIffIssue ==
    Annotated => \A i \in 1..Len(df.rows) : df.rows[i].is_bad <=> df.rows[i].issue_type # <<>>

C11_Witness ==
    /\ pc = "annotated" /\ Len(df.rows) = 2
    /\ df.rows[1].is_bad /\ df.rows[1].issue_type = <<"null_location;">>
    /\ ~df.rows[2].is_bad /\ df.rows[2].issue_type = <<>>

C16_ExpectedTags(r) ==
    (IF r["phone"] # Null /\ ~TenDigits(Normalized(r["phone"]))
     THEN <<"invalid_phone;">> ELSE <<>>)
    \o (IF r["name"] = Null THEN <<"null_name;">> ELSE <<>>)
    \o (IF r["phone"] = Null THEN <<"null_phone;">> ELSE <<>>)
    \o (IF r["location"] = Null THEN <<"null_location;">> ELSE <<>>)

C16_TagComposition ==
    Annotated => \A i \in 1..Len(df.rows) :
        df.rows[i].issue_type = C16_ExpectedTags(Loaded.rows[i])

C16_Witness ==
    /\ pc = "annotated" /\ Len(df.rows) = 2
    /\ df.rows[1].issue_type = <<"invalid_phone;", "null_name;", "null_location;">>
    /\ df.rows[2].issue_type = <<"null_name;", "null_phone;", "null_location;">>

Count(q, x) == Cardinality({k \in 1..Len(q) : q[k] = x})
ArtifactRows(kind) ==
    IF \E o \in outputs : o.kind = kind /\ o.base = file_base_name(EngineFile)
    THEN (CHOOSE o \in outputs : o.kind = kind /\ o.base = file_base_name(EngineFile)).rows
    ELSE <<>>

\* C12: once write_output_files has returned, the table has as many rows as
\* the input, every row with is_bad false is in the clean output (without
\* is_bad and issue_type) as often as in the table and not in the bad output,
\* every row with is_bad true is in the bad output (with both columns) as
\* often as in the table and not in the clean output, and the two outputs
\* hold nothing else.
C12_Partition ==
    (pc = "written") =>
        LET cleanRows == ArtifactRows("clean")
            badRows == ArtifactRows("bad")
        IN /\ Len(df.rows) = Len(inputDir[EngineFile].content.rows)
           /\ Len(cleanRows) + Len(badRows) = Len(df.rows)
           /\ \A k \in 1..Len(cleanRows) : DOMAIN cleanRows[k] = RequiredColumns
           /\ \A k \in 1..Len(badRows) :
                 {"is_bad", "issue_type"} \subseteq DOMAIN badRows[k] /\ badRows[k].is_bad
           /\ \A i \in 1..Len(df.rows) :
                 LET r == df.rows[i]
                     c == [col \in RequiredColumns |-> r[col]]
                 IN IF r.is_bad
                    THEN Count(badRows, r) = Count(df.rows, r) /\ Count(cleanRows, c) = 0
                    ELSE Count(cleanRows, c) = Count(df.rows, r) /\ Count(badRows, r) = 0

C12_Witness ==
    /\ pc = "written" /\ Len(df.rows) = 2
    /\ Len(ArtifactRows("clean")) = 1 /\ Len(ArtifactRows("bad")) = 1
    /\ df.rows[1].is_bad /\ ~df.rows[2].is_bad

\* C14 as stated: a non-null address or reviews_list value is replaced by its
\* characters that are alphanumeric, a blank or a comma, in their order; a
\* null value stays null.
C14_DescriptiveCleaning ==
    Annotated => \A i \in 1..Len(df.rows) : \A col \in {"address", "reviews_list"} :
        LET v == Loaded.rows[i][col] IN
        IF v = Null THEN df.rows[i][col] = Null
        ELSE df.rows[i][col] = SelectSeq(v, LAMBDA c : c \in Digits \cup Letters \cup {" ", ","})

\* C17 as stated: what a row gets (is_bad, issue_type, cleaned phone) is what
\* it gets as the only row of a file, and a row with name and location
\* present and a phone that normalizes to ten digits is clean.
C17_Alone(i) ==
    LET content == inputDir[EngineFile].content
        single == [content EXCEPT !.rows = <<content.rows[i]>>]
    IN data_quality_check_module(read_csv(single)).rows[1]

C17_RowIndependence ==
    Annotated => \A i \in 1..Len(df.rows) :
        LET raw == inputDir[EngineFile].content.rows[i] IN
        /\ df.rows[i].is_bad = C17_Alone(i).is_bad
        /\ df.rows[i].issue_type = C17_Alone(i).issue_type
        /\ df.rows[i].phone = C17_Alone(i).phone
        /\ (raw["name"] # <<>> /\ raw["location"] # <<>> /\ TenDigits(Normalized(raw["phone"])))
              => (~df.rows[i].is_bad /\ df.rows[i].issue_type = <<>>)

\* C15: the step that writes the clean artifact adds it with the clean rows
\* of the table, also when there are none; the bad artifact of the base name
\* is replaced by the bad rows when there is one, and no bad artifact changes
\* when there is none.
BadArtifacts(outs) == {o \in outs : o.kind = "bad"}

C15_CleanAlways ==
    (pc = "annotated" /\ pc' \in {"clean_written", "written"}) =>
        /\ [kind |-> "clean", base |-> file_base_name(file_path), stamp |-> runNo,
            rows |-> [k \in 1..Len(SelectSeq(df.rows, LAMBDA r : ~r.is_bad)) |->
                        [col \in RequiredColumns |->
                           SelectSeq(df.rows, LAMBDA r : ~r.is_bad)[k][col]]]] \in outputs'
        /\ BadArtifacts(outputs') = BadArtifacts(outputs)
        /\ (pc' = "written") <=> (\A i \in 1..Len(df.rows) : ~df.rows[i].is_bad)

C15_BadIffBadRows ==
    (pc = "clean_written" /\ pc' = "written") =>
        /\ \E i \in 1..Len(df.rows) : df.rows[i].is_bad
        /\ \A o \in BadArtifacts(outputs') :
              o.base = file_base_name(file_path) =>
                 (o.stamp = runNo /\ o.rows = SelectSeq(df.rows, LAMBDA r : r.is_bad))
        /\ \E o \in BadArtifacts(outputs') : o.base = file_base_name(file_path)
        /\ {o \in BadArtifacts(outputs') : o.base # file_base_name(file_path)}
             = {o \in BadArtifacts(outputs) : o.base # file_base_name(file_path)}

C15_ArtifactExistence == [][C15_CleanAlways /\ C15_BadIffBadRows]_vars

\* a file without clean rows is written in a run that leaves the stale bad
\* artifact of the other file alone, and a clean-only file keeps the stale
\* bad artifact of its own base name
C15_Witness ==
    /\ pc = "written" /\ file_path \in Files
    /\ \A i \in 1..Len(df.rows) : ~df.rows[i].is_bad
    /\ \E o \in outputs : o.kind = "bad" /\ o.base = file_base_name(file_path) /\ o.stamp < runNo
    /\ \E o \in outputs : o.kind = "clean" /\ o.rows = <<>>

\* ------------------------------------ two instances sharing one ledger
\* Each instance runs main on one candidate file. Between reading the ledger
\* (line 29) and rewriting it (line 34) the other instance can take steps.
RaceRecord(p) == [file_name |-> inst[p].job, processed_date |-> p]

InitRace ==
    /\ inputDir \in [Files -> {[exists |-> TRUE, size |-> 1, csv |-> TRUE, content |-> c] :
                                 c \in {TClean, TMixed, TBad}}]
    /\ inst \in [Instances -> {[pc |-> "start", job |-> f, local |-> <<>>] : f \in Files}]
    /\ ledger = <<>>
    /\ ledgerTorn = FALSE
    /\ outputs = {}
    /\ pc = "race"
    /\ csv_files = <<>>
    /\ file_path = "none"
    /\ df = NoDf
    /\ runNo = 1
    /\ changes = 0
    /\ status = [f \in Files |-> "NotSeen"]
    /\ admission = [f \in Files |-> "none"]
    /\ writers = [f \in Files |-> {}]
    /\ notice = FALSE
    /\ abortCause = "none"
    /\ prevCompleted = FALSE
    /\ sameDir = FALSE
    /\ dirChanged = FALSE
    /\ newArtifacts = 0
    /\ newRecords = 0
    /\ failedRuns = {}

RaceFrame ==
    UNCHANGED <<inputDir, ledgerTorn, pc, csv_files, file_path, df, runNo, changes,
                status, admission, writers, notice, abortCause, prevCompleted, sameDir,
                dirChanged, newArtifacts, newRecords, failedRuns>>

\* main, lines 138-139: the instance's file_check_module call
RaceCheck(p) ==
    /\ inst[p].pc = "start"
    /\ inst' = [inst EXCEPT ![p].pc =
                  IF Check(inst[p].job) = "Admit" THEN "admitted" ELSE "done"]
    /\ UNCHANGED <<ledger, outputs>>
    /\ RaceFrame

\* main, lines 145-154: load, check and write the artifacts of the file
RaceProcess(p) ==
    /\ inst[p].pc = "admitted"
    /\ LET f == inst[p].job
           t == data_quality_check_module(read_csv(inputDir[f].content))
           clean == [kind |-> "clean", base |-> file_base_name(f), stamp |-> runNo,
                     rows |-> clean_records(t)]
           bad == [kind |-> "bad", base |-> file_base_name(f), stamp |-> runNo,
                   rows |-> bad_records(t)]
       IN outputs' = outputs \cup {clean} \cup (IF bad_records(t) # <<>> THEN {bad} ELSE {})
    /\ inst' = [inst EXCEPT ![p].pc = "written"]
    /\ UNCHANGED ledger
    /\ RaceFrame

\* save_processed_files, lines 25-32: the ledger is read into processed_df
RaceSaveRead(p) ==
    /\ inst[p].pc = "written"
    /\ inst' = [inst EXCEPT ![p].pc = "read", ![p].local = ledger]
    /\ UNCHANGED <<ledger, outputs>>
    /\ RaceFrame

\* mutant: the record is appended to the ledger as it is at the write
RaceSaveWrite_append(p) ==
    /\ inst[p].pc = "read"
    /\ ledger' = Append(ledger, RaceRecord(p))
    /\ inst' = [inst EXCEPT ![p].pc = "saved"]
    /\ UNCHANGED outputs
    /\ RaceFrame

\* save_processed_files, line 34: the ledger file is replaced by processed_df
\* plus the new record
RaceSaveWrite(p) ==
    /\ inst[p].pc = "read"
    /\ ledger' = save_processed_files(inst[p].local, inst[p].job, p)
    /\ inst' = [inst EXCEPT ![p].pc = "saved"]
    /\ UNCHANGED outputs
    /\ RaceFrame

NextRace ==
    \E p \in Instances :
        \/ RaceCheck(p)
        \/ RaceProcess(p)
        \/ RaceSaveRead(p)
        \/ RaceSaveWrite(p)

SpecRace == InitRace /\ [][NextRace]_vars

\* C18 as stated: every step leaves the existing ledger records in place and
\* adds at most one record at the end.
C18_Step ==
    /\ Len(ledger') >= Len(ledger)
    /\ SubSeq(ledger', 1, Len(ledger)) = ledger
    /\ Len(ledger') <= Len(ledger) + 1

C18_AppendOnly == [][C18_Step]_vars

\* C19: the step that skips a file, and the file_check_module call of any
\* file, changes neither the ledger nor an output artifact; a skipped file
\* stays Skipped until the run ends, with no artifact and no record of the run.
C19_CheckHasNoEffect ==
    \A f \in Files :
        (admission[f] = "none" /\ admission'[f] # "none") =>
            (ledger' = ledger /\ ledgerTorn' = ledgerTorn /\ outputs' = outputs)

C19_SkippedIsTerminal ==
    \A f \in Files :
        (status[f] = "Skipped" /\ runNo' = runNo) => status'[f] = "Skipped"

C19_NoTrace ==
    \A f \in Files : status[f] = "Skipped" =>
        /\ admission[f] \in {"AlreadyProcessed", "Empty", "InvalidExtension"}
        /\ runNo \notin writers[f]
        /\ ~\E o \in outputs : o.base = file_base_name(f) /\ o.stamp = runNo
        /\ ~\E i \in 1..Len(ledger) :
               ledger[i].file_name = f /\ ledger[i].processed_date = runNo

C19_SkippedNoEffect ==
    [](C19_NoTrace) /\ [][C19_CheckHasNoEffect /\ C19_SkippedIsTerminal]_vars

C19_Witness ==
    /\ pc = "done" /\ runNo = 2
    /\ \E f, g \in Files :
         /\ status[f] = "Skipped" /\ admission[f] = "Empty"
         /\ status[g] = "Skipped" /\ admission[g] = "AlreadyProcessed"
         /\ file_path = g

\* C20: when both instances have saved their record, the record of the one
\* that wrote first is absent from the ledger exactly when the one that wrote
\* last had read the ledger before that write; when no record is absent and
\* both processed the same file, its file_name is recorded twice.
BothSaved == \A p \in Instances : inst[p].pc = "saved"
InLedger(rec) == \E i \in 1..Len(ledger) : ledger[i] = rec
LastWriter == ledger[Len(ledger)].processed_date
C20_Lost == \E p \in Instances : ~InLedger(RaceRecord(p))
C20_Overlap ==
    \E p \in Instances :
        /\ p # LastWriter
        /\ ~\E i \in 1..Len(inst[LastWriter].local) : inst[LastWriter].local[i] = RaceRecord(p)

C20_LostUpdate ==
    BothSaved =>
        /\ C20_Lost <=> C20_Overlap
        /\ (~C20_Lost /\ inst[1].job = inst[2].job) =>
              Cardinality({i \in 1..Len(ledger) : ledger[i].file_name = inst[1].job}) = 2

C20_Witness ==
    /\ BothSaved
    /\ inst[1].job # inst[2].job
    /\ C20_Lost
    /\ Len(ledger) = 1
    /\ \A p \in Instances : \E o \in outputs : o.base = file_base_name(inst[p].job)

====
